---- MODULE Spec2Model ----
(***************************************************************************)
(* Path morphing of shape-lerping: the generic engine of                   *)
(* src/path_lerping.rs (Euclidean margin, snapping, mismatched command     *)
(* variants) and the engine compiled into the demo, mod path_lerping of    *)
(* src/main.rs (per-axis margin, no snapping, exhaustive match guarded by  *)
(* unreachable!()).                                                        *)
(*                                                                         *)
(* Numbers.  f32 coordinates are modelled on an integer grid; the factor t *)
(* and the value 0.5 are counted in halves (t = n/2).  A lerp is computed  *)
(* by the formula of the library the code calls and its result is rounded  *)
(* once to the nearest grid value, which stands for the finite precision   *)
(* of f32: a repeated lerp can come to rest one grid step away from its    *)
(* target, as an f32 lerp comes to rest one ulp away.  Rounding errors     *)
(* inside one lerp (of the difference other - self, of the two products)   *)
(* are below the grid step and are not modelled.                           *)
(*                                                                         *)
(* Panics.  unreachable!(), a failed assert! and unwrap on None end the    *)
(* program: a tick that reaches one leaves res = "panic" and no further    *)
(* tick happens.  The debug-build validator of the path builder is not     *)
(* modelled: a builder accepts whatever events it is given.                *)
(***************************************************************************)
EXTENDS Integers, Sequences, FiniteSets

VARIABLES
    self,      \* receiver of the last Point / PathEvent lerped call
    other,     \* its argument
    out,       \* what that call returned: <<snapped, value>>, or "none" before it
    cur,       \* PathComponent of the shape: the path lerped from, replaced each tick
    prev,      \* the path the last tick lerped from (cur before that tick)
    tgt,       \* LerpingShape.target
    t,         \* LerpingShape.lerp_t, in halves
    margin,    \* LerpingShape.margin_of_error, in grid units
    engine,    \* which of the two engines the run uses: "main" or "generic"
    res,       \* outcome of the last tick: "none", a LerpResult, or "panic"
    sides,     \* SidesChangingShape.sides (u8)
    bounds,    \* SidesChangingShape.bounds, a RangeInclusive<u8>: [lo, hi]
    direction, \* SidesChangingShape.direction
    checks,    \* whether the build checks integer overflow (debug) or wraps (release)
    call,      \* the last increment_sides call: what it started from and how it ended
    pending,   \* LerpFinished events sent and not yet read by change_sides
    handled,   \* events change_sides read when it last ran
    changed,   \* change detection of SidesChangingShape, as seen by update_lerp_target
    pc         \* the system that runs next in the frame, "none" outside the host loop

lerpVars == <<self, other, out, cur, prev, tgt, t, margin, engine, res>>

hostVars == <<sides, bounds, direction, checks, call, pending, handled, changed, pc>>

vars == <<self, other, out, cur, prev, tgt, t, margin, engine, res,
          sides, bounds, direction, checks, call, pending, handled, changed, pc>>

----------------------------------------------------------------------------
(* Bounds of the checked instances.                                        *)

MaxCoord == 2      \* point coordinates of the Point instances: 0..MaxCoord
MaxT == 2          \* t ranges over 0, 1/2, .. MaxT/2
MaxMargin == 3     \* margins range over -1 (Point, PathEvent), 0 .. MaxMargin
MaxSides == 9      \* polygons of 3 .. MaxSides sides

Half == 1          \* the literal 0.5, in halves

Ts == 0..MaxT
Margins == 0..MaxMargin
SignedMargins == (0 - 1)..MaxMargin

----------------------------------------------------------------------------
(* Points (tess::math::Point) and the arithmetic of the two lerp crates.   *)

Pt(px, py) == [x |-> px, y |-> py]

Origin == Pt(0, 0)

Abs(v) == IF v < 0 THEN 0 - v ELSE v

\* a / d rounded to the nearest integer (d > 0)
RoundDiv(a, d) == (2 * a + d) \div (2 * d)

\* a variant of PointLerp with the two weights exchanged
PointLerpExchanged(p, q, n) ==
    Pt(RoundDiv(n * p.x + (2 - n) * q.x, 2), RoundDiv(n * p.y + (2 - n) * q.y, 2))

\* euclid Point2D::lerp: one_t * self + t * other, with one_t = 1 - t
PointLerp(p, q, n) ==
    Pt(RoundDiv((2 - n) * p.x + n * q.x, 2), RoundDiv((2 - n) * p.y + n * q.y, 2))

\* lerp::Lerp::lerp on f32: self + (other - self) * t
ScalarLerp(a, b, n) == a + RoundDiv((b - a) * n, 2)

\* squared Euclidean distance; distance_to(..) > p  <=>  p < 0 \/ Dist2 > p * p
Dist2(p, q) == (p.x - q.x) * (p.x - q.x) + (p.y - q.y) * (p.y - q.y)

\* a variant of DistanceGreater with the comparison turned around
DistanceGreaterInverted(p, q, m) == m < 0 \/ Dist2(p, q) < m * m

DistanceGreater(p, q, m) == m < 0 \/ Dist2(p, q) > m * m

\* a variant of PointLerped that reports the snap but returns the raw point
PointLerpedNoSnap(p, q, n, m) ==
    LET result == PointLerp(p, q, n)
    IN  IF DistanceGreater(result, q, m) THEN <<FALSE, result>> ELSE <<TRUE, result>>

\* impl Lerp for Point: <<snapped, point>>
PointLerped(p, q, n, m) ==
    LET result == PointLerp(p, q, n)
    IN  IF DistanceGreater(result, q, m) THEN <<FALSE, result>> ELSE <<TRUE, q>>

----------------------------------------------------------------------------
(* Path events (tess::path::PathEvent).  One record shape for the five     *)
(* variants; a field a variant does not have is Origin / FALSE.            *)
(*   Begin{at}: to = at          End{last, first, close}: from, to, close  *)

Begin(at) ==
    [tag |-> "Begin", from |-> Origin, c1 |-> Origin, c2 |-> Origin, to |-> at, close |-> FALSE]

Line(from, to) ==
    [tag |-> "Line", from |-> from, c1 |-> Origin, c2 |-> Origin, to |-> to, close |-> FALSE]

Quadratic(from, ctrl, to) ==
    [tag |-> "Quadratic", from |-> from, c1 |-> ctrl, c2 |-> Origin, to |-> to, close |-> FALSE]

Cubic(from, ctrl1, ctrl2, to) ==
    [tag |-> "Cubic", from |-> from, c1 |-> ctrl1, c2 |-> ctrl2, to |-> to, close |-> FALSE]

End(last, first, close) ==
    [tag |-> "End", from |-> last, c1 |-> Origin, c2 |-> Origin, to |-> first, close |-> close]

\* fn lerp_other inside impl Lerp for PathEvent: the result takes other's variant
LerpOther(from_from, from_to, from_ctrl, from_ctrl2, o, n, m) ==
    LET f  == PointLerped(from_from, o.from, n, m)
        k1 == PointLerped(from_ctrl, o.c1, n, m)
        k2 == PointLerped(from_ctrl2, o.c2, n, m)
        e  == PointLerped(from_to, o.to, n, m)
        at == PointLerped(from_from, o.to, n, m)
    IN  CASE o.tag = "Begin" -> <<at[1], Begin(at[2])>>
          [] o.tag = "Line" -> <<f[1] /\ e[1], Line(f[2], e[2])>>
          [] o.tag = "Quadratic" -> <<f[1] /\ k1[1] /\ e[1], Quadratic(f[2], k1[2], e[2])>>
          [] o.tag = "Cubic" ->
                <<f[1] /\ k1[1] /\ k2[1] /\ e[1], Cubic(f[2], k1[2], k2[2], e[2])>>
          [] o.tag = "End" -> <<f[1] /\ e[1], End(f[2], e[2], TRUE)>>

\* a variant of EventLerped that keeps the richer command also when all points snapped
EventLerpedKeepTag(s, o, n, m) ==
    LET fa == PointLerped(s.from, o.to, n, m)
        ka == PointLerped(s.c1, o.to, n, m)
        la == PointLerped(s.c2, o.to, n, m)
        ta == PointLerped(s.to, o.to, n, m)
        f  == PointLerped(s.from, o.from, n, m)
        e  == PointLerped(s.to, o.to, n, m)
        omid == PointLerp(o.from, o.to, Half)
        km == PointLerped(s.c1, omid, n, m)
        lm == PointLerped(s.c2, omid, n, m)
        kq == PointLerped(s.c1, o.c1, n, m)
        lq == PointLerped(s.c2, o.c1, n, m)
        smid == PointLerp(s.from, s.to, Half)
    IN  CASE s.tag = "Begin" -> LerpOther(s.to, s.to, s.to, s.to, o, n, m)
          [] s.tag = "Line" /\ o.tag = "Begin" -> <<fa[1] /\ ta[1], Line(fa[2], ta[2])>>
          [] s.tag = "Line" /\ o.tag # "Begin" -> LerpOther(s.from, s.to, smid, smid, o, n, m)
          [] s.tag = "Quadratic" /\ o.tag = "Begin" ->
                <<fa[1] /\ ka[1] /\ ta[1], Quadratic(fa[2], ka[2], ta[2])>>
          [] s.tag = "Quadratic" /\ o.tag \in {"Line", "End"} ->
                <<f[1] /\ km[1] /\ e[1], Quadratic(f[2], km[2], e[2])>>
          [] s.tag = "Quadratic" /\ o.tag \in {"Quadratic", "Cubic"} ->
                LerpOther(s.from, s.to, s.c1, s.c1, o, n, m)
          [] s.tag = "Cubic" /\ o.tag = "Begin" ->
                <<fa[1] /\ ka[1] /\ la[1] /\ ta[1], Cubic(fa[2], ka[2], la[2], ta[2])>>
          [] s.tag = "Cubic" /\ o.tag \in {"Line", "End"} ->
                <<f[1] /\ km[1] /\ lm[1] /\ e[1], Cubic(f[2], km[2], lm[2], e[2])>>
          [] s.tag = "Cubic" /\ o.tag = "Quadratic" ->
                <<f[1] /\ kq[1] /\ lq[1] /\ e[1], Cubic(f[2], kq[2], lq[2], e[2])>>
          [] s.tag = "Cubic" /\ o.tag = "Cubic" -> LerpOther(s.from, s.to, s.c1, s.c2, o, n, m)
          [] s.tag = "End" /\ o.tag = "Begin" -> <<fa[1] /\ ta[1], End(fa[2], ta[2], s.close)>>
          [] s.tag = "End" /\ o.tag # "Begin" -> LerpOther(s.from, s.to, smid, smid, o, n, m)

\* impl Lerp for PathEvent: <<snapped, event>>
EventLerped(s, o, n, m) ==
    LET \* self's points against the single point of a Begin
        fa == PointLerped(s.from, o.to, n, m)
        ka == PointLerped(s.c1, o.to, n, m)
        la == PointLerped(s.c2, o.to, n, m)
        ta == PointLerped(s.to, o.to, n, m)
        \* self's end points against other's end points
        f  == PointLerped(s.from, o.from, n, m)
        e  == PointLerped(s.to, o.to, n, m)
        \* self's control points against the midpoint of a Line or End
        omid == PointLerp(o.from, o.to, Half)
        km == PointLerped(s.c1, omid, n, m)
        lm == PointLerped(s.c2, omid, n, m)
        \* a Cubic's control points against the control point of a Quadratic
        kq == PointLerped(s.c1, o.c1, n, m)
        lq == PointLerped(s.c2, o.c1, n, m)
        smid == PointLerp(s.from, s.to, Half)
    IN  CASE s.tag = "Begin" -> LerpOther(s.to, s.to, s.to, s.to, o, n, m)
          [] s.tag = "Line" /\ o.tag = "Begin" -> <<fa[1] /\ ta[1], Line(fa[2], ta[2])>>
          [] s.tag = "Line" /\ o.tag # "Begin" -> LerpOther(s.from, s.to, smid, smid, o, n, m)
          [] s.tag = "Quadratic" /\ o.tag = "Begin" ->
                <<fa[1] /\ ka[1] /\ ta[1], Quadratic(fa[2], ka[2], ta[2])>>
          [] s.tag = "Quadratic" /\ o.tag \in {"Line", "End"} ->
                IF f[1] /\ km[1] /\ e[1]
                THEN <<TRUE, o>>
                ELSE <<FALSE, Quadratic(f[2], km[2], e[2])>>
          [] s.tag = "Quadratic" /\ o.tag \in {"Quadratic", "Cubic"} ->
                LerpOther(s.from, s.to, s.c1, s.c1, o, n, m)
          [] s.tag = "Cubic" /\ o.tag = "Begin" ->
                <<fa[1] /\ ka[1] /\ la[1] /\ ta[1], Cubic(fa[2], ka[2], la[2], ta[2])>>
          [] s.tag = "Cubic" /\ o.tag \in {"Line", "End"} ->
                IF f[1] /\ km[1] /\ lm[1] /\ e[1]
                THEN <<TRUE, o>>
                ELSE <<FALSE, Cubic(f[2], km[2], lm[2], e[2])>>
          [] s.tag = "Cubic" /\ o.tag = "Quadratic" ->
                IF f[1] /\ kq[1] /\ lq[1] /\ e[1]
                THEN <<TRUE, o>>
                ELSE <<FALSE, Cubic(f[2], kq[2], lq[2], e[2])>>
          [] s.tag = "Cubic" /\ o.tag = "Cubic" -> LerpOther(s.from, s.to, s.c1, s.c2, o, n, m)
          [] s.tag = "End" /\ o.tag = "Begin" -> <<fa[1] /\ ta[1], End(fa[2], ta[2], s.close)>>
          [] s.tag = "End" /\ o.tag # "Begin" -> LerpOther(s.from, s.to, smid, smid, o, n, m)

----------------------------------------------------------------------------
(* Paths (tess::path::Path).  A Path stores, per command, its verb and the *)
(* points the verb adds: begin(at), line_to(to), quadratic_bezier_to(ctrl, *)
(* to), cubic_bezier_to(ctrl1, ctrl2, to), end(close).  The from / last /  *)
(* first points of the events a Path yields are not stored: iteration      *)
(* derives them from the preceding commands.  A Path is modelled as the    *)
(* sequence of its stored commands, i.e. events with those fields blank.   *)

Min(a, b) == IF a < b THEN a ELSE b

SetMax(S) == CHOOSE v \in S : \A w \in S : w <= v

\* Builder::path_event: what a Path keeps of an event
Stored(e) ==
    IF e.tag = "End"
    THEN End(Origin, Origin, e.close)
    ELSE [e EXCEPT !.from = Origin]

\* impl FromIterator<PathEvent> for Path (and builder.concatenate(..).build() of it)
FromIter(events) == [i \in 1..Len(events) |-> Stored(events[i])]

\* Iter: the start of the sub-path command i belongs to
FirstAt(path, i) ==
    LET begins == {j \in 1..i : path[j].tag = "Begin"}
    IN  IF begins = {} THEN Origin ELSE path[SetMax(begins)].to

\* Iter: the current point after command i
CurrentAt(path, i) ==
    IF i = 0 THEN Origin
    ELSE IF path[i].tag = "End" THEN FirstAt(path, i)
    ELSE path[i].to

\* Path::iter(): the events of a path
Iter(path) ==
    [i \in 1..Len(path) |->
        CASE path[i].tag = "Begin" -> path[i]
          [] path[i].tag = "End" ->
                End(CurrentAt(path, i - 1), FirstAt(path, i), path[i].close)
          [] OTHER -> [path[i] EXCEPT !.from = CurrentAt(path, i - 1)]]

\* iter().count(), the command count
Count(path) == Len(path)

Repeat(e, d) == [i \in 1..d |-> e]

Take(s, k) == SubSeq(s, 1, Min(k, Len(s)))

Skip(s, k) == IF k >= Len(s) THEN <<>> ELSE SubSeq(s, k + 1, Len(s))

\* one Begin first, one End last, no other Begin or End
WellFormed(path) ==
    /\ Len(path) >= 2
    /\ path[1].tag = "Begin"
    /\ path[Len(path)].tag = "End"
    /\ \A i \in 2..(Len(path) - 1) : path[i].tag \in {"Line", "Quadratic", "Cubic"}

----------------------------------------------------------------------------
(* The generic engine, src/path_lerping.rs.  A path-level result is a      *)
(* record [panic, within, path].                                           *)

Returned(within, path) == [panic |-> FALSE, within |-> within, path |-> path]

Panicked == [panic |-> TRUE, within |-> FALSE, path |-> <<>>]

\* the per-pair results of the zip in lerp_equal_sides
GenericPairs(fromEvents, toEvents, n, m) ==
    [i \in 1..Min(Len(fromEvents), Len(toEvents)) |->
        EventLerped(fromEvents[i], toEvents[i], n, m)]

\* a variant of GenericLerpEqualSides whose flag is the flag of the last pair only
GenericLerpEqualSidesLastFlag(fromEvents, toEvents, n, m) ==
    LET pairs == GenericPairs(fromEvents, toEvents, n, m)
    IN  Returned(Len(pairs) = 0 \/ pairs[Len(pairs)][1],
                 FromIter([i \in 1..Len(pairs) |-> pairs[i][2]]))

\* fn lerp_equal_sides (generic over the two event iterators)
GenericLerpEqualSides(fromEvents, toEvents, n, m) ==
    LET pairs == GenericPairs(fromEvents, toEvents, n, m)
    IN  Returned(\A i \in 1..Len(pairs) : pairs[i][1],
                 FromIter([i \in 1..Len(pairs) |-> pairs[i][2]]))

\* fn lerp_less_sides: from preceded by copies of its first event
GenericLerpLessSides(from, to, n, m) ==
    LET from_count == Count(from)
        to_count == Count(to)
        first == IF from_count > 0 THEN Iter(from)[1] ELSE Iter(to)[1]
    IN  GenericLerpEqualSides(Repeat(first, to_count - from_count) \o Iter(from),
                              Iter(to), n, m)

\* fn lerp_greater_sides: to preceded by copies of its first event; to itself once snapped
GenericLerpGreaterSides(from, to, n, m) ==
    LET from_count == Count(from)
        to_count == Count(to)
        first == IF to_count > 0 THEN Iter(to)[1] ELSE Iter(from)[1]
        merged == GenericLerpEqualSides(Iter(from),
                                        Repeat(first, from_count - to_count) \o Iter(to),
                                        n, m)
    IN  IF merged.within THEN Returned(TRUE, to) ELSE merged

\* impl Lerp<Self, Path> for &Path
GenericLerped(from, to, n, m) ==
    CASE Count(from) = Count(to) -> GenericLerpEqualSides(Iter(from), Iter(to), n, m)
      [] Count(from) < Count(to) -> GenericLerpLessSides(from, to, n, m)
      [] Count(from) > Count(to) -> GenericLerpGreaterSides(from, to, n, m)

----------------------------------------------------------------------------
(* The engine of the demo, mod path_lerping of src/main.rs.                *)

\* fn check_if_within_margin_of_error: TRUE when it leaves *out alone
WithinMarginOfError(p, q, m) == ~(Abs(p.x - q.x) > m \/ Abs(p.y - q.y) > m)

\* Point2D::new(Lerp::lerp(a.x, b.x, t), Lerp::lerp(a.y, b.y, t))
LerpPoint2D(a, b, n) == Pt(ScalarLerp(a.x, b.x, n), ScalarLerp(a.y, b.y, n))

\* the match of lerp_equal_sides on one pair of events: [panic, within, event]
MainLerpEvent(fe, te, n, m) ==
    LET from == LerpPoint2D(fe.from, te.from, n)
        to == LerpPoint2D(fe.to, te.to, n)
    IN  CASE fe.tag = "Begin" /\ te.tag = "Begin" ->
                [panic |-> FALSE, within |-> WithinMarginOfError(to, te.to, m),
                 event |-> Begin(to)]
          [] fe.tag = "Line" /\ te.tag = "Line" ->
                [panic |-> FALSE,
                 within |-> WithinMarginOfError(from, te.from, m)
                            /\ WithinMarginOfError(to, te.to, m),
                 event |-> Line(from, to)]
          [] fe.tag = "End" /\ te.tag = "End" ->
                [panic |-> FALSE,
                 within |-> WithinMarginOfError(from, te.from, m)
                            /\ WithinMarginOfError(to, te.to, m),
                 event |-> End(from, to, TRUE)]
          [] OTHER -> [panic |-> TRUE, within |-> FALSE, event |-> fe]

\* the per-pair results of the zip in path_lerping::lerp_equal_sides
MainPairs(from, to, n, m) ==
    [i \in 1..Min(Count(from), Count(to)) |-> MainLerpEvent(Iter(from)[i], Iter(to)[i], n, m)]

\* pub fn lerp_equal_sides
MainLerpEqualSides(from, to, n, m) ==
    LET pairs == MainPairs(from, to, n, m)
    IN  IF Count(from) # Count(to) \/ \E i \in 1..Len(pairs) : pairs[i].panic
        THEN Panicked
        ELSE Returned(\A i \in 1..Len(pairs) : pairs[i].within,
                      FromIter([i \in 1..Len(pairs) |-> pairs[i].event]))

\* the events lerp_less_sides builds its padded path from (insert_index holds a Line)
MainPaddedFrom(from, to_count) ==
    LET from_count == Count(from)
        insert_index == from_count \div 2
        duplicated == Iter(from)[insert_index + 1].to
    IN  Take(Iter(from), insert_index)
        \o Repeat(Line(duplicated, duplicated), to_count - from_count)
        \o Skip(Iter(from), insert_index)

\* pub fn lerp_less_sides
MainLerpLessSides(from, to, n, m) ==
    LET from_count == Count(from)
        to_count == Count(to)
        insert_index == from_count \div 2
    IN  IF from_count >= to_count \/ from_count = 0 THEN Panicked
        ELSE IF Iter(from)[insert_index + 1].tag = "Line"
        THEN MainLerpEqualSides(FromIter(MainPaddedFrom(from, to_count)), to, n, m)
        ELSE Panicked

\* the events lerp_greater_sides builds its padded target from
MainPaddedTo(to, from_count) ==
    LET to_count == Count(to)
        insert_index == to_count \div 2
        duplicated == Iter(to)[insert_index + 1]
    IN  Take(Iter(to), insert_index)
        \o Repeat(duplicated, from_count - to_count)
        \o Skip(Iter(to), insert_index)

\* lerp_greater_sides: let remove_index = from_count / 2
MainRemoveIndex(from_count, to_count) == from_count \div 2

\* lerp_greater_sides: the converged result with diff commands taken out
MainShrunk(lerped, from_count, to_count) ==
    LET diff == from_count - to_count
        remove_index == MainRemoveIndex(from_count, to_count)
    IN  FromIter(Take(Iter(lerped), remove_index) \o Skip(Iter(lerped), remove_index + diff))

\* pub fn lerp_greater_sides
MainLerpGreaterSides(from, to, n, m) ==
    LET from_count == Count(from)
        to_count == Count(to)
        merged == MainLerpEqualSides(from, FromIter(MainPaddedTo(to, from_count)), n, m)
    IN  IF from_count <= to_count \/ to_count = 0 THEN Panicked
        ELSE IF merged.panic THEN Panicked
        ELSE IF merged.within
        THEN Returned(TRUE, MainShrunk(merged.path, from_count, to_count))
        ELSE merged

\* impl Lerpable for Path
MainLerp(from, to, n, m) ==
    CASE Count(from) = Count(to) -> MainLerpEqualSides(from, to, n, m)
      [] Count(from) < Count(to) -> MainLerpLessSides(from, to, n, m)
      [] Count(from) > Count(to) -> MainLerpGreaterSides(from, to, n, m)

\* lerp_path of either engine
LerpPath(e, from, to, n, m) ==
    IF e = "main" THEN MainLerp(from, to, n, m) ELSE GenericLerped(from, to, n, m)

----------------------------------------------------------------------------
(* Inputs.                                                                 *)

Points == {Pt(px, py) : px \in 0..MaxCoord, py \in 0..MaxCoord}

\* the points the checked events and general paths are made of
Pool == {Origin, Pt(MaxCoord, MaxCoord)}

Events ==
    {Begin(a) : a \in Pool}
    \cup {Line(a, b) : a \in Pool, b \in Pool}
    \cup {Quadratic(a, c, b) : a \in Pool, c \in Pool, b \in Pool}
    \cup {Cubic(a, c, d, b) : a \in Pool, c \in Pool, d \in Pool, b \in Pool}
    \cup {End(a, b, cl) : a \in Pool, b \in Pool, cl \in BOOLEAN}

\* the commands between Begin and End, as a Path stores them
Segments ==
    {Stored(Line(Origin, b)) : b \in Pool}
    \cup {Stored(Quadratic(Origin, c, b)) : c \in Pool, b \in Pool}
    \cup {Stored(Cubic(Origin, c, d, b)) : c \in Pool, d \in Pool, b \in Pool}

\* well-formed paths of two and three commands, open and closed
GeneralPaths ==
    {<<Begin(a), End(Origin, Origin, cl)>> : a \in Pool, cl \in BOOLEAN}
    \cup {<<Begin(a), sg, End(Origin, Origin, cl)>> : a \in Pool, sg \in Segments, cl \in BOOLEAN}

\* eight directions around the origin, standing for the angles of a circle
Ring ==
    <<Pt(2, 0), Pt(2, 2), Pt(0, 2), Pt(0 - 2, 2),
      Pt(0 - 2, 0), Pt(0 - 2, 0 - 2), Pt(0, 0 - 2), Pt(2, 0 - 2)>>

\* vertex k (from 0) of the polygon of the given number of sides
Vertex(n, k) == Ring[(((k * Len(Ring)) \div n) % Len(Ring)) + 1]

\* ShapePath::build_as(&shapes::RegularPolygon { sides, .. }).0: a closed polygon,
\* Begin, sides - 1 Lines, End { close: true }
RegularPolygon(n) ==
    <<Begin(Vertex(n, 0))>>
    \o [k \in 1..(n - 1) |-> Stored(Line(Origin, Vertex(n, k)))]
    \o <<End(Origin, Origin, TRUE)>>

Polygons == {RegularPolygon(n) : n \in 3..MaxSides}

Paths == GeneralPaths \cup Polygons

----------------------------------------------------------------------------
(* The side counter of the demo (SidesChangingShape, Direction).  sides is *)
(* a u8: an addition or subtraction that leaves 0..U8Max panics in a build *)
(* with overflow checks and wraps in a build without.                      *)

U8Max == 255       \* u8::MAX

MaxEdge == 2       \* counter instances: bounds end within MaxEdge of 0 and of U8Max
MaxDepth == 2      \* nested increment_sides calls followed before the call is given up

\* fn inverted of Direction
Inverted(d) == IF d = "Increasing" THEN "Decreasing" ELSE "Increasing"

\* the function get_operation returns, applied: Add::add or Sub::sub on u8
GetOperation(d, a, b, chk) ==
    LET exact == IF d = "Increasing" THEN a + b ELSE a - b
        overflow == exact < 0 \/ exact > U8Max
    IN  [panic |-> chk /\ overflow,
         wrapped |-> overflow,
         value |-> (exact + U8Max + 1) % (U8Max + 1)]

\* RangeInclusive::contains
Contains(b, v) == b.lo <= v /\ v <= b.hi

\* how an increment_sides call ended: "returned", "panic" (arithmetic overflow) or
\* "diverged" (the recursion does not end: more than MaxDepth nested calls)
Ended(s, d, n, wrapped, outcome) ==
    [sides |-> s, direction |-> d, inversions |-> n, wrapped |-> wrapped,
     outcome |-> outcome]

RECURSIVE IncrementSidesFrom(_, _, _, _, _)
\* fn increment_sides, entered with n inversions behind it
IncrementSidesFrom(s, d, b, chk, n) ==
    LET new_sides == GetOperation(d, s, 1, chk)
    IN  IF n > MaxDepth THEN Ended(s, d, n, FALSE, "diverged")
        ELSE IF new_sides.panic THEN Ended(s, d, n, FALSE, "panic")
        ELSE IF Contains(b, new_sides.value)
             THEN Ended(new_sides.value, d, n, new_sides.wrapped, "returned")
        ELSE IncrementSidesFrom(s, Inverted(d), b, chk, n + 1)

\* SidesChangingShape::increment_sides
IncrementSides(s, d, b, chk) == IncrementSidesFrom(s, d, b, chk, 0)

\* the record of a call: the sides and direction it started from, and how it ended
Called(s, d, e) == [from |-> s, was |-> d, end |-> e]

NoCall == Called(0, "none", Ended(0, "none", 0, FALSE, "none"))

\* the state of the host loop in the instances without one
NoHost ==
    /\ sides = 0 /\ bounds = [lo |-> 0, hi |-> 0] /\ direction = "none" /\ checks = FALSE
    /\ call = NoCall /\ pending = 0 /\ handled = 0 /\ changed = FALSE /\ pc = "none"

----------------------------------------------------------------------------
(* Point instances: one call of Point::lerped.                             *)

NoPath == <<>>

InitPoint ==
    /\ self \in Points /\ other \in Points
    /\ t \in Ts /\ margin \in SignedMargins
    /\ out = <<>>
    /\ cur = NoPath /\ prev = NoPath /\ tgt = NoPath /\ engine = "none" /\ res = "none"
    /\ NoHost

\* self.lerped(other, t, p) on Points
CallPointLerped ==
    /\ out = <<>>
    /\ out' = PointLerped(self, other, t, margin)
    /\ UNCHANGED <<self, other, cur, prev, tgt, t, margin, engine, res>>
    /\ UNCHANGED hostVars

NextPoint == CallPointLerped

SpecPoint == InitPoint /\ [][NextPoint]_vars

(* PathEvent instances: one call of PathEvent::lerped.                     *)

InitEvent ==
    /\ self \in Events /\ other \in Events
    /\ t \in Ts /\ margin \in SignedMargins
    /\ out = <<>>
    /\ cur = NoPath /\ prev = NoPath /\ tgt = NoPath /\ engine = "none" /\ res = "none"
    /\ NoHost

\* self.lerped(other, t, p) on PathEvents
CallEventLerped ==
    /\ out = <<>>
    /\ out' = EventLerped(self, other, t, margin)
    /\ UNCHANGED <<self, other, cur, prev, tgt, t, margin, engine, res>>
    /\ UNCHANGED hostVars

NextEvent == CallEventLerped

SpecEvent == InitEvent /\ [][NextEvent]_vars

(* Path instances: a shape is lerped towards its target tick after tick.   *)

Init ==
    /\ cur \in Paths /\ tgt \in Paths
    /\ prev = NoPath
    /\ t \in Ts /\ margin \in Margins
    /\ engine \in {"main", "generic"}
    /\ res = "none"
    /\ self = Origin /\ other = Origin /\ out = <<>>
    /\ NoHost

\* what a tick leaves behind, given the result of the engine's lerp_path
Ticked(r) ==
    /\ prev' = cur
    /\ IF r.panic
       THEN res' = "panic" /\ cur' = cur
       ELSE /\ cur' = r.path
            /\ res' = IF r.within THEN "WithinMarginOfError" ELSE "OutsideMarginOfError"
    /\ UNCHANGED <<self, other, out, tgt, t, margin, engine>>

\* fn lerp_shape of main.rs: from.0 = from.0.lerp(&to.target, to.lerp_t, to.margin_of_error)
LerpShape ==
    /\ engine = "main" /\ res # "panic"
    /\ Ticked(MainLerp(cur, tgt, t, margin))
    /\ UNCHANGED hostVars

\* the same tick with the engine of path_lerping.rs: (&from).lerped(&target, t, p)
LerpShapeGeneric ==
    /\ engine = "generic" /\ res # "panic"
    /\ Ticked(GenericLerped(cur, tgt, t, margin))
    /\ UNCHANGED hostVars

Next == LerpShape \/ LerpShapeGeneric

Spec == Init /\ [][Next]_vars

(* Host instances: the three systems of main.rs run in their order, frame  *)
(* after frame, on the one shape setup spawns.  setup's constants (sides,  *)
(* bounds, direction, lerp_t, margin_of_error) range over small sets; the  *)
(* bounds hold two or more polygons.  A LerpFinished event sent in a frame *)
(* is read by change_sides in the next one, once.                          *)

Directions == {"Increasing", "Decreasing"}

HostBounds == {b \in [lo : 3..MaxSides, hi : 3..MaxSides] : b.lo < b.hi}

\* fn setup
InitHost ==
    /\ bounds \in HostBounds /\ sides \in bounds.lo..bounds.hi
    /\ direction \in Directions /\ checks \in BOOLEAN
    /\ cur = RegularPolygon(sides) /\ tgt = RegularPolygon(sides) /\ prev = NoPath
    /\ t \in Ts /\ margin \in Margins
    /\ engine \in {"main", "generic"}
    /\ res = "none" /\ call = NoCall
    /\ pending = 0 /\ handled = 0 /\ changed = TRUE /\ pc = "ChangeSides"
    /\ self = Origin /\ other = Origin /\ out = <<>>

\* no system has panicked
Running == res # "panic" /\ call.end.outcome \in {"none", "returned"}

RECURSIVE ChangeSidesLoop(_, _, _, _)
\* the loop of change_sides over k events: sides.increment_sides() for each
ChangeSidesLoop(k, s, d, c) ==
    IF k = 0 \/ c.end.outcome \notin {"none", "returned"}
    THEN [sides |-> s, direction |-> d, call |-> c]
    ELSE LET e == IncrementSides(s, d, bounds, checks)
         IN  ChangeSidesLoop(k - 1, e.sides, e.direction, Called(s, d, e))

\* fn change_sides
HostChangeSides ==
    /\ pc = "ChangeSides" /\ Running
    /\ LET after == ChangeSidesLoop(pending, sides, direction, call)
       IN  /\ sides' = after.sides /\ direction' = after.direction /\ call' = after.call
    /\ changed' = (changed \/ pending > 0)
    /\ handled' = pending /\ pending' = 0
    /\ pc' = "UpdateLerpTarget"
    /\ UNCHANGED <<lerpVars, bounds, checks>>

\* a variant of HostUpdateLerpTarget that rebuilds the target one frame late
HostUpdateLerpTargetLate ==
    /\ pc = "UpdateLerpTarget" /\ Running
    /\ tgt' = IF changed /\ handled = 0 THEN RegularPolygon(sides) ELSE tgt
    /\ changed' = (changed /\ handled > 0)
    /\ pc' = "LerpShape"
    /\ UNCHANGED <<self, other, out, cur, prev, t, margin, engine, res>>
    /\ UNCHANGED <<sides, bounds, direction, checks, call, pending, handled>>

\* fn update_lerp_target: the query matches the shape when its SidesChangingShape
\* was added or mutably borrowed since the system last ran
HostUpdateLerpTarget ==
    /\ pc = "UpdateLerpTarget" /\ Running
    /\ tgt' = IF changed THEN RegularPolygon(sides) ELSE tgt
    /\ changed' = FALSE
    /\ pc' = "LerpShape"
    /\ UNCHANGED <<self, other, out, cur, prev, t, margin, engine, res>>
    /\ UNCHANGED <<sides, bounds, direction, checks, call, pending, handled>>

\* fn lerp_shape
HostLerpShape ==
    /\ pc = "LerpShape" /\ Running
    /\ LET r == LerpPath(engine, cur, tgt, t, margin)
       IN  /\ Ticked(r)
           /\ pending' = IF ~r.panic /\ r.within THEN pending + 1 ELSE pending
    /\ pc' = "ChangeSides"
    /\ UNCHANGED <<sides, bounds, direction, checks, call, handled, changed>>

NextHost == HostChangeSides \/ HostUpdateLerpTarget \/ HostLerpShape

SpecHost == InitHost /\ [][NextHost]_vars

(* Counter instances: increment_sides called again and again on one        *)
(* SidesChangingShape, for the bounds of the demo and for bounds that end  *)
(* near the two ends of u8.                                                *)

\* bounds: 3..=8 of setup
DemoBounds == [lo |-> 3, hi |-> 8]

Edges == (0..MaxEdge) \cup ((U8Max - MaxEdge)..U8Max)

SidesBounds == {b \in [lo : Edges, hi : Edges] : b.lo <= b.hi} \cup {DemoBounds}

InitSides ==
    /\ bounds \in SidesBounds /\ sides \in bounds.lo..bounds.hi
    /\ direction \in Directions /\ checks \in BOOLEAN
    /\ call = NoCall
    /\ pending = 0 /\ handled = 0 /\ changed = FALSE /\ pc = "none"
    /\ self = Origin /\ other = Origin /\ out = <<>>
    /\ cur = NoPath /\ prev = NoPath /\ tgt = NoPath /\ t = 0 /\ margin = 0
    /\ engine = "none" /\ res = "none"

\* shape.increment_sides()
CallIncrementSides ==
    /\ call.end.outcome \in {"none", "returned"}
    /\ LET e == IncrementSides(sides, direction, bounds, checks)
       IN  /\ sides' = e.sides /\ direction' = e.direction
           /\ call' = Called(sides, direction, e)
    /\ UNCHANGED <<lerpVars, bounds, checks, pending, handled, changed, pc>>

NextSides == CallIncrementSides

SpecSides == InitSides /\ [][NextSides]_vars

----------------------------------------------------------------------------
(* Claims.                                                                 *)

Within == "WithinMarginOfError"

Outside == "OutsideMarginOfError"

\* C1 (as claimed): convergence is a fixed point of lerp_path: once a tick returns
\* converged, the next tick, which lerps from the returned path towards the same
\* target with the same t and margin, returns converged again.
C1_ConvergedStaysConverged == [][res = Within => res' = Within]_vars

\* C2: the checked point lerp returns (true, other) when the lerped point is within
\* margin (Euclidean distance) of other, and (false, the raw lerped point) otherwise.
C2_ExactSnap ==
    out # <<>> =>
        LET raw == PointLerp(self, other, t)
        IN  IF margin >= 0 /\ Dist2(raw, other) <= margin * margin
            THEN out = <<TRUE, other>>
            ELSE out = <<FALSE, raw>>

\* C2 witness: a call that snapped a lerped point that was not yet the target
C2_Witness == out # <<>> /\ out[1] /\ out[2] = other /\ PointLerp(self, other, t) # other

\* the order of geometric information: cubic > quadratic > line > start
Rank(tag) ==
    CASE tag = "Cubic" -> 4
      [] tag = "Quadratic" -> 3
      [] tag = "Line" -> 2
      [] tag = "Begin" -> 1
      [] OTHER -> 0

Richer(a, b) == IF Rank(a) >= Rank(b) THEN a ELSE b

Ordered(a, b) == a # b /\ Rank(a) > 0 /\ Rank(b) > 0

\* C8 (as claimed): for commands of different tags, the returned command has the tag
\* of the richer of the two, whether or not the pair converged.
C8_RicherTagAlways ==
    (out # <<>> /\ Ordered(self.tag, other.tag)) =>
        out[2].tag = Richer(self.tag, other.tag)

\* C8 (amended): for commands of different tags, the returned command has the tag of
\* the richer of the two while the pair has not converged; once it converged it has
\* the target's tag, unless the target is a Begin, which never replaces a tag.
C8_RicherTagUntilConverged ==
    (out # <<>> /\ Ordered(self.tag, other.tag)) =>
        out[2].tag = IF out[1] /\ other.tag # "Begin"
                     THEN other.tag
                     ELSE Richer(self.tag, other.tag)

\* C8 witness: a converged Cubic against a Line came back as the Line
C8_Witness ==
    /\ out # <<>> /\ out[1]
    /\ self.tag = "Cubic" /\ other.tag = "Line" /\ out[2].tag = "Line"


\* the last tick lerped prev towards tgt and returned
Lerped == prev # NoPath /\ res # "none" /\ res # "panic"

C5_MonotoneMargin ==
    (Lerped /\ res = Within) =>
        \A m2 \in margin..(MaxMargin + 1) :
            LET r == LerpPath(engine, prev, tgt, t, m2)
            IN  ~r.panic /\ r.within

\* C5 witness: a tick that converged with a margin it needed
C5_Witness ==
    /\ Lerped /\ res = Within /\ margin > 0 /\ prev # tgt
    /\ ~LerpPath(engine, prev, tgt, t, margin - 1).within


\* Begin, Lines, End { close: true }: the closed polygons of the demo
ClosedPolygon(path) ==
    /\ WellFormed(path)
    /\ path[Len(path)].close
    /\ \A i \in 2..(Len(path) - 1) : path[i].tag = "Line"

Closed(path) == WellFormed(path) /\ path[Len(path)].close

SameTags(p, q) == Len(p) = Len(q) /\ \A i \in 1..Len(p) : p[i].tag = q[i].tag

\* C3 (as claimed, its safety part): between closed polygons of three or more sides
\* and different command counts, with t in (0, 1], a result returned as converged has
\* as many commands as the target.
C3_ConvergedHasTargetCount ==
    (Lerped /\ ClosedPolygon(prev) /\ ClosedPolygon(tgt)
     /\ Count(prev) >= 4 /\ Count(tgt) >= 4 /\ Count(prev) # Count(tgt)
     /\ t \in 1..2 /\ res = Within) =>
        Count(cur) = Count(tgt)

SnapAtZero(p, q, m) == IF Dist2(p, q) <= m * m THEN q ELSE p

C6_Total == (prev # NoPath /\ WellFormed(prev) /\ WellFormed(tgt)) => res # "panic"

\* the points of a command are within margin of the points of a target command
CommandWithin(e, c, d, m) ==
    /\ c.tag = d.tag
    /\ IF e = "main"
       THEN WithinMarginOfError(c.from, d.from, m) /\ WithinMarginOfError(c.to, d.to, m)
       ELSE /\ ~DistanceGreater(c.from, d.from, m) /\ ~DistanceGreater(c.to, d.to, m)
            /\ ~DistanceGreater(c.c1, d.c1, m) /\ ~DistanceGreater(c.c2, d.c2, m)

\* C7 (as claimed): with more commands on from, a result that did not converge keeps
\* from's count, and a converged result is a well-formed path of to's count whose
\* i-th command is within margin of to's i-th command, whatever the difference.
C7_ShrinkOnConvergence ==
    (Lerped /\ WellFormed(prev) /\ WellFormed(tgt) /\ Count(prev) > Count(tgt)) =>
        /\ res = Outside => Count(cur) = Count(prev)
        /\ res = Within =>
              /\ Count(cur) = Count(tgt)
              /\ WellFormed(cur)
              /\ \A i \in 1..Min(Count(cur), Count(tgt)) :
                    CommandWithin(engine, Iter(cur)[i], Iter(tgt)[i], margin)

\* the copy of from the claim describes: d zero-length Lines at index from_count / 2,
\* at the point of the command found there
MidpointPadded(from, d) ==
    LET k == Count(from) \div 2
        at == IF from[k + 1].tag = "End" THEN CurrentAt(from, k) ELSE from[k + 1].to
    IN  Take(from, k) \o Repeat(Stored(Line(at, at)), d) \o Skip(from, k)

\* C9 (as claimed): with fewer commands on from, lerp_path returns the equal-length
\* merge of to and the copy of from padded with zero-length Lines at from_count / 2.
C9_MidpointPadding ==
    (prev # NoPath /\ res # "none" /\ WellFormed(prev) /\ WellFormed(tgt)
     /\ Count(prev) < Count(tgt)) =>
        LET padded == MidpointPadded(prev, Count(tgt) - Count(prev))
            merged == IF engine = "main"
                      THEN MainLerpEqualSides(padded, tgt, t, margin)
                      ELSE GenericLerpEqualSides(Iter(padded), Iter(tgt), t, margin)
        IN  /\ res # "panic"
            /\ cur = merged.path
            /\ (res = Within) <=> merged.within
            /\ Count(cur) = Count(tgt)

\* the system that follows a system in a frame, and the first one of the next frame
Follows(system) ==
    CASE system = "ChangeSides" -> "UpdateLerpTarget"
      [] system = "UpdateLerpTarget" -> "LerpShape"
      [] system = "LerpShape" -> "ChangeSides"

\* what C11 says of one step of the host loop
TickStep ==
    /\ pc' = Follows(pc)
    /\ pc = "ChangeSides" =>
          /\ handled' = pending /\ pending' = 0 /\ tgt' = tgt /\ cur' = cur
          /\ IF pending = 0
             THEN sides' = sides /\ direction' = direction /\ call' = call
             ELSE LET e == IncrementSides(sides, direction, bounds, checks)
                  IN  /\ pending = 1 /\ e.outcome = "returned"
                      /\ call' = Called(sides, direction, e)
                      /\ sides' = e.sides /\ direction' = e.direction
                      /\ Abs(sides' - sides) = 1 /\ Contains(bounds, sides')
    /\ pc = "UpdateLerpTarget" =>
          /\ sides' = sides /\ direction' = direction /\ pending' = pending /\ cur' = cur
          /\ tgt' = RegularPolygon(sides)
          /\ handled = 0 => tgt' = tgt
    /\ pc = "LerpShape" =>
          LET r == LerpPath(engine, cur, tgt, t, margin)
          IN  /\ ~r.panic /\ cur' = r.path
              /\ pending' = IF r.within THEN pending + 1 ELSE pending
              /\ (res' = Within) <=> r.within
              /\ sides' = sides /\ direction' = direction /\ tgt' = tgt

\* C11: the systems run in the order ChangeSides, UpdateLerpTarget, LerpShape; a lerp
\* replaces the current path by its result and sends a LerpFinished event exactly when
\* the result is WithinMarginOfError; an event is read once, in the next frame, by one
\* increment_sides call, and the target is the polygon of the current side count
\* whenever the shape is lerped; without an event, sides, direction and target stay.
C11_TickOrder ==
    /\ [](pending \in 0..1 /\ handled \in 0..1)
    /\ [](pc = "LerpShape" => tgt = RegularPolygon(sides))
    /\ [](pending = 1 <=> (pc = "ChangeSides" /\ res = Within))
    /\ [][TickStep]_vars

\* C11 witness: a frame that read an event, stepped the side counter, lerped towards
\* the polygon of the new side count without reaching it; the next frame has no event
C11_Witness ==
    /\ pc = "ChangeSides" /\ handled = 1 /\ pending = 0 /\ res = Outside
    /\ call.end.outcome = "returned" /\ call.end.sides = sides /\ call.from # sides
    /\ tgt = RegularPolygon(sides) /\ prev # NoPath /\ Count(cur) = Count(tgt)

\* sides one step further in direction d, as a number: it can leave 0..U8Max
Stepped(s, d) == IF d = "Increasing" THEN s + 1 ELSE s - 1

\* C12 (as claimed): for bounds with min < max, sides stays inside the bounds over
\* any sequence of increment_sides calls, and a call inverts the direction exactly
\* when the step in the direction it starts with would leave the bounds.
C12_BoundedCounter ==
    /\ [](Contains(bounds, sides))
    /\ [][bounds.lo < bounds.hi =>
            ((direction' # direction) <=> ~Contains(bounds, Stepped(sides, direction)))]_vars

\* C13 (as claimed): for bounds with min < max, a call of increment_sides returns
\* after at most one inversion of the direction, stores no wrapped value, and leaves
\* sides one away from what it was.
C13_IncrementTerminates ==
    (call # NoCall /\ bounds.lo < bounds.hi) =>
        /\ call.end.outcome = "returned"
        /\ call.end.inversions <= 1
        /\ ~call.end.wrapped
        /\ Abs(sides - call.from) = 1

====
